---------------------------- MODULE Spec2Model ----------------------------
(***************************************************************************)
(* Model of kmr_memory_simulation.py: the Kathpalia Memory Relation        *)
(* KMR_strain and the module-level script that evaluates it over the PBH   *)
(* mass grid and prints the min/max diagnostic.                            *)
(*                                                                         *)
(* Numbers.  KMR_strain is built from *, / and ** only, so a real x is     *)
(* held as its sign and the base-10 logarithm of its magnitude in fixed    *)
(* point (Unit steps per decade): a product adds logarithms, a quotient    *)
(* subtracts them and a power scales them.  The fixed-point rounding       *)
(* stands in for binary64 rounding; binary64 overflow and underflow are    *)
(* not modelled (every magnitude used below stays within 1e-120..1e120).   *)
(* A value also carries its Python scalar type (np: numpy.float64, else    *)
(* the built-in float), since the two differ on a zero divisor and on a    *)
(* fractional power of a negative base.                                    *)
(*   k = "num"   a non-zero finite number  s * 10^(l / Unit)               *)
(*   k = "zero"  0.0                                                       *)
(*   k = "inf"   s * infinity              (numpy only)                    *)
(*   k = "nan"   not a number              (numpy only)                    *)
(*   k = "cplx"  a complex number          (built-in float only)           *)
(*   k = "raise" ZeroDivisionError raised  (built-in float only)           *)
(***************************************************************************)
EXTENDS Integers, Sequences, FiniteSets

\* Fixed-point resolution: logarithms are held in 1/Unit decades.
Unit == 1000000

\* Longest log of KMR_strain calls the test harness of SpecFn records.
MaxCalls == 3

---------------------------------------------------------------------------
\* Values

Mk(k, s, l, np) == [k |-> k, s |-> s, l |-> l, np |-> np]

\* A positive built-in float with log10 = l / Unit.
Num(l) == Mk("num", 1, l, FALSE)

Zero(np) == Mk("zero", 1, 0, np)
Inf(s, np) == Mk("inf", s, 0, np)
NaN == Mk("nan", 1, 0, TRUE)
Cplx == Mk("cplx", 1, 0, FALSE)
Raise == Mk("raise", 1, 0, FALSE)

\* numpy.float64(x)
Float64(x) == [x EXCEPT !.np = TRUE]

\* -x
Neg(x) == IF x.k \in {"num", "inf"} THEN [x EXCEPT !.s = -x.s] ELSE x

\* The outcome two operands force on any arithmetic operation, "ok" if none.
Forced(a, b) ==
    IF a.k = "raise" \/ b.k = "raise" THEN "raise"
    ELSE IF a.k = "cplx" \/ b.k = "cplx" THEN "cplx"
    ELSE IF a.k = "nan" \/ b.k = "nan" THEN "nan"
    ELSE "ok"

Special(f) == IF f = "raise" THEN Raise ELSE IF f = "cplx" THEN Cplx ELSE NaN

\* a * b
Mul(a, b) ==
    LET np == a.np \/ b.np
        f  == Forced(a, b)
    IN  IF f # "ok" THEN Special(f)
        ELSE IF a.k = "zero" \/ b.k = "zero"
             THEN IF a.k = "inf" \/ b.k = "inf" THEN NaN ELSE Zero(np)
        ELSE IF a.k = "inf" \/ b.k = "inf" THEN Inf(a.s * b.s, np)
        ELSE Mk("num", a.s * b.s, a.l + b.l, np)

\* a / b: a zero divisor raises ZeroDivisionError between built-in floats and
\* gives inf or nan (with a warning) when either operand is a numpy.float64.
Div(a, b) ==
    LET np == a.np \/ b.np
        f  == Forced(a, b)
    IN  IF f = "raise" THEN Raise
        ELSE IF b.k = "zero" /\ ~np THEN Raise
        ELSE IF f # "ok" THEN Special(f)
        ELSE IF b.k = "zero"
             THEN IF a.k = "zero" THEN NaN ELSE Inf(a.s, np)
        ELSE IF b.k = "inf"
             THEN IF a.k = "inf" THEN NaN ELSE Zero(np)
        ELSE IF a.k = "zero" THEN Zero(np)
        ELSE IF a.k = "inf" THEN Inf(a.s * b.s, np)
        ELSE Mk("num", a.s * b.s, a.l - b.l, np)

\* a ** (n / d), for the exponents the program uses: 1/3, -1, 2, 4.
Pow(a, n, d) ==
    LET odd  == d = 1 /\ n % 2 = 1
        sign == IF a.s = -1 /\ odd THEN -1 ELSE 1
    IN  IF a.k \in {"raise", "cplx", "nan"} THEN a
        ELSE IF a.k = "zero"
             THEN IF n > 0 THEN a
                  ELSE IF a.np THEN Inf(1, TRUE) ELSE Raise
        ELSE IF a.s = -1 /\ d # 1
             THEN IF a.np THEN NaN ELSE Cplx
        ELSE IF a.k = "inf"
             THEN IF n > 0 THEN Inf(sign, a.np) ELSE Zero(a.np)
        ELSE Mk("num", sign, (a.l * n) \div d, a.np)

\* a < b on finite reals; FALSE when either is not one (as for nan).
Less(a, b) ==
    LET sg(x) == IF x.k = "zero" THEN 0 ELSE x.s
    IN  /\ a.k \in {"num", "zero"}
        /\ b.k \in {"num", "zero"}
        /\ IF sg(a) # sg(b) THEN sg(a) < sg(b)
           ELSE IF sg(a) = 0 THEN FALSE
           ELSE IF sg(a) = 1 THEN a.l < b.l
           ELSE a.l > b.l

\* a == b as Python compares numbers: by value, whatever the scalar type, and
\* never equal when either is nan.
Eq(a, b) ==
    /\ a.k \in {"num", "zero", "inf"}
    /\ a.k = b.k /\ a.s = b.s /\ a.l = b.l

\* a <= b on finite reals.
LessEq(a, b) ==
    /\ a.k \in {"num", "zero"}
    /\ b.k \in {"num", "zero"}
    /\ ~Less(b, a)

---------------------------------------------------------------------------
\* Literals of the source, as log10 in 1/1000000 decades

LgG == -7175594
LgC == 10476817
LgMsun == 33301030
LgRsun == 10845098
LgEpsilon == -1698970
LgD == 26491362
Lg2 == 301030
Lg3 == 477121
Lg8 == 903090
LgPi == 497150

Two == Num(Lg2)
Three == Num(Lg3)
Eight == Num(Lg8)
Pi == Num(LgPi)
E40 == Num(40 * Unit)

Msun == Num(LgMsun)
Rsun == Num(LgRsun)

\* The mass grid's decade bounds and point count.
GridLo == 20
GridHi == 25
GridNum == 200

---------------------------------------------------------------------------
\* Program state: the module's globals, the script's position, and history

VARIABLES
    G, c,                 \* physical constants KMR_strain reads as globals
    M_star, R_star, epsilon, deltaM, D, v_ej,   \* model parameters
    M_pbh,                \* the mass grid
    acc,                  \* the list the comprehension of the sweep builds
    strains,              \* the strain sequence
    report,               \* the (min, max) pair handed to the diagnostic print
    pc,                   \* the statement the script is at
    base,                 \* SpecFn: the arguments the harness starts from
    calls                 \* history: every KMR_strain call, arguments and result

vars == <<G, c, M_star, R_star, epsilon, deltaM, D, v_ej, M_pbh, acc,
          strains, report, pc, base, calls>>

globals == <<G, c, M_star, R_star, epsilon, deltaM, D, v_ej>>

Args(m_pbh, m_star, r_star, dM, eps, d, v) ==
    [M_pbh |-> m_pbh, M_star |-> m_star, R_star |-> r_star, deltaM |-> dM,
     epsilon |-> eps, D |-> d, v_ej |-> v]

\* KMR_strain with (Rt / Rg)**-1 mistyped as (Rt / Rg)*-1.
KMR_strain_TimesMinusOne(m_pbh, m_star, r_star, dM, eps, d, v) ==
    LET Rt == Mul(r_star, Pow(Div(m_pbh, m_star), 1, 3))
        Rg == Div(Mul(Mul(Two, G), m_pbh), Pow(c, 2, 1))
    IN  Mul(Mul(Mul(Mul(Mul(Mul(E40,
            Div(Mul(Eight, eps), Mul(Three, Pi))),
            Div(dM, m_pbh)),
            Neg(Div(Rt, Rg))),
            Pow(Div(v, c), 2, 1)),
            Div(G, Pow(c, 4, 1))),
            Div(m_pbh, d))

\* KMR_strain with the last factor written M_pbh / D**2.
KMR_strain_DSquared(m_pbh, m_star, r_star, dM, eps, d, v) ==
    LET Rt == Mul(r_star, Pow(Div(m_pbh, m_star), 1, 3))
        Rg == Div(Mul(Mul(Two, G), m_pbh), Pow(c, 2, 1))
    IN  Mul(Mul(Mul(Mul(Mul(Mul(E40,
            Div(Mul(Eight, eps), Mul(Three, Pi))),
            Div(dM, m_pbh)),
            Pow(Div(Rt, Rg), -1, 1)),
            Pow(Div(v, c), 2, 1)),
            Div(G, Pow(c, 4, 1))),
            Div(m_pbh, Pow(d, 2, 1)))

\* KMR_strain with the anisotropy factor left out of 8 * epsilon / (3 * pi).
KMR_strain_NoEpsilon(m_pbh, m_star, r_star, dM, eps, d, v) ==
    LET Rt == Mul(r_star, Pow(Div(m_pbh, m_star), 1, 3))
        Rg == Div(Mul(Mul(Two, G), m_pbh), Pow(c, 2, 1))
    IN  Mul(Mul(Mul(Mul(Mul(Mul(E40,
            Div(Eight, Mul(Three, Pi))),
            Div(dM, m_pbh)),
            Pow(Div(Rt, Rg), -1, 1)),
            Pow(Div(v, c), 2, 1)),
            Div(G, Pow(c, 4, 1))),
            Div(m_pbh, d))

\* The strain model.  G and c are the module's globals at the time of the call.
KMR_strain(m_pbh, m_star, r_star, dM, eps, d, v) ==
    LET Rt == Mul(r_star, Pow(Div(m_pbh, m_star), 1, 3))
        Rg == Div(Mul(Mul(Two, G), m_pbh), Pow(c, 2, 1))
    IN  Mul(Mul(Mul(Mul(Mul(Mul(E40,
            Div(Mul(Eight, eps), Mul(Three, Pi))),
            Div(dM, m_pbh)),
            Pow(Div(Rt, Rg), -1, 1)),
            Pow(Div(v, c), 2, 1)),
            Div(G, Pow(c, 4, 1))),
            Div(m_pbh, d))

Apply(a) ==
    KMR_strain(a.M_pbh, a.M_star, a.R_star, a.deltaM, a.epsilon, a.D, a.v_ej)

\* numpy.linspace with endpoint=False: num steps, the stop value left out.
LinSpace_NoEndpoint(start, stop, num) ==
    LET step == (2 * (stop - start) + num) \div (2 * num)
    IN  [i \in 1..num |-> start + (i - 1) * step]

\* numpy.linspace(start, stop, num), endpoint included: start + i * step with
\* step = (stop - start) / (num - 1) rounded to nearest, the last set to stop.
LinSpace(start, stop, num) ==
    LET div  == num - 1
        step == (2 * (stop - start) + div) \div (2 * div)
    IN  [i \in 1..num |-> IF i = num /\ num > 1 THEN stop
                          ELSE start + (i - 1) * step]

\* numpy.logspace(lo, hi, num): 10 ** linspace(lo, hi, num), numpy.float64.
LogSpace(lo, hi, num) ==
    LET y == LinSpace(lo * Unit, hi * Unit, num)
    IN  [i \in 1..num |-> Float64(Num(y[i]))]

\* numpy.min / numpy.max over s[lo..hi]: a reduction that keeps the smaller
\* (larger) of two elements under <, and is nan if any element is.
Pick(a, b, takeMin) ==
    IF a.k = "nan" \/ b.k = "nan" THEN NaN
    ELSE IF takeMin THEN (IF Less(b, a) THEN b ELSE a)
    ELSE (IF Less(a, b) THEN b ELSE a)

RECURSIVE Reduce(_, _, _, _)
Reduce(s, lo, hi, takeMin) ==
    IF lo = hi THEN s[lo]
    ELSE LET mid == (lo + hi) \div 2
         IN  Pick(Reduce(s, lo, mid, takeMin),
                  Reduce(s, mid + 1, hi, takeMin), takeMin)

\* numpy.max over all but the last element.
NpMax_DropLast(s) == Reduce(s, 1, Len(s) - 1, FALSE)

NpMin(s) == Reduce(s, 1, Len(s), TRUE)
NpMax(s) == Reduce(s, 1, Len(s), FALSE)

None == <<>>

\* Lines 14-27 have run: constants and parameters are set, nothing else is.
Globals0 ==
    /\ G = Num(LgG)
    /\ c = Num(LgC)
    /\ M_star = Msun
    /\ R_star = Rsun
    /\ epsilon = Num(LgEpsilon)
    /\ deltaM = Mul(Num(-3 * Unit), Msun)
    /\ D = Num(LgD)
    /\ v_ej = Mul(Num(-1 * Unit), c)

Init ==
    /\ Globals0
    /\ M_pbh = <<>>
    /\ acc = <<>>
    /\ strains = <<>>
    /\ report = None
    /\ pc = "grid"
    /\ base = None
    /\ calls = <<>>

\* Line 32: M_pbh = np.logspace(20, 25, 200)
BuildGrid ==
    /\ pc = "grid"
    /\ M_pbh' = LogSpace(GridLo, GridHi, GridNum)
    /\ pc' = "sweep"
    /\ UNCHANGED <<globals, acc, strains, report, base, calls>>

\* The comprehension walking the grid from its last value to its first.
Eval_Reversed ==
    /\ pc = "sweep"
    /\ Len(acc) < Len(M_pbh)
    /\ LET m == M_pbh[Len(M_pbh) - Len(acc)]
           a == Args(m, M_star, R_star, deltaM, epsilon, D, v_ej)
           r == Apply(a)
       IN  /\ calls' = Append(calls, [a |-> a, r |-> r])
           /\ IF r.k = "raise"
              THEN pc' = "error" /\ acc' = acc
              ELSE pc' = pc /\ acc' = Append(acc, r)
    /\ UNCHANGED <<globals, M_pbh, strains, report, base>>

\* The sweep split over two workers, one taking the odd grid positions and one
\* the even, their results concatenated.
Eval_Interleaved ==
    /\ pc = "sweep"
    /\ Len(acc) < Len(M_pbh)
    /\ LET half == (Len(M_pbh) + 1) \div 2
           m == IF Len(acc) < half THEN M_pbh[2 * Len(acc) + 1]
                ELSE M_pbh[2 * (Len(acc) - half) + 2]
           a == Args(m, M_star, R_star, deltaM, epsilon, D, v_ej)
           r == Apply(a)
       IN  /\ calls' = Append(calls, [a |-> a, r |-> r])
           /\ IF r.k = "raise"
              THEN pc' = "error" /\ acc' = acc
              ELSE pc' = pc /\ acc' = Append(acc, r)
    /\ UNCHANGED <<globals, M_pbh, strains, report, base>>

\* Line 66, one iteration of the comprehension: the next grid value is taken,
\* KMR_strain is called on it and the result appended.  An exception ends
\* the script.
Eval ==
    /\ pc = "sweep"
    /\ Len(acc) < Len(M_pbh)
    /\ LET m == M_pbh[Len(acc) + 1]
           a == Args(m, M_star, R_star, deltaM, epsilon, D, v_ej)
           r == Apply(a)
       IN  /\ calls' = Append(calls, [a |-> a, r |-> r])
           /\ IF r.k = "raise"
              THEN pc' = "error" /\ acc' = acc
              ELSE pc' = pc /\ acc' = Append(acc, r)
    /\ UNCHANGED <<globals, M_pbh, strains, report, base>>

\* Line 66, the grid is exhausted: strains = np.array([...])
Collect ==
    /\ pc = "sweep"
    /\ Len(acc) = Len(M_pbh)
    /\ strains' = acc
    /\ pc' = "report"
    /\ UNCHANGED <<globals, M_pbh, acc, report, base, calls>>

\* Line 69: np.min(strains) and np.max(strains) are computed for the print.
Report ==
    /\ pc = "report"
    /\ report' = <<NpMin(strains), NpMax(strains)>>
    /\ pc' = "plot"
    /\ UNCHANGED <<globals, M_pbh, acc, strains, base, calls>>

\* Lines 74-91: the plot reads M_pbh and strains and changes neither.
Plot ==
    /\ pc = "plot"
    /\ pc' = "done"
    /\ UNCHANGED <<globals, M_pbh, acc, strains, report, base, calls>>

Next == BuildGrid \/ Eval \/ Collect \/ Report \/ Plot

Spec == Init /\ [][Next]_vars


---------------------------------------------------------------------------
\* SpecFn: KMR_strain as a function.  The arguments are drawn from the sets
\* below and the function is called on them, and on the same arguments with
\* D, deltaM or epsilon doubled, in any order, up to MaxCalls times.

\* M_pbh: 1e-40, 1, 1e20, 1e22, 1e25, 1e40, 0 and -1e22 g
MassValues ==
    {Num(-40 * Unit), Num(0), Num(20 * Unit), Num(22 * Unit), Num(25 * Unit),
     Num(40 * Unit), Zero(FALSE), Neg(Num(22 * Unit))}

\* Black-hole masses as built-in floats and as numpy.float64 scalars.
MassInputs == MassValues \cup {Float64(m) : m \in MassValues}

\* epsilon: 0.02, 1, 1.5, 0, -0.02
EpsInputs ==
    {Num(LgEpsilon), Num(0), Num(Lg3 - Lg2), Zero(FALSE), Neg(Num(LgEpsilon))}

\* v_ej: 0.1 c, c, 2 c
VInputs == {Num(LgC - Unit), Num(LgC), Num(LgC + Lg2)}

\* D: 3.1e26 cm, 1e20 cm
DInputs == {Num(LgD), Num(20 * Unit)}

BaseSpace ==
    {Args(m, Msun, Rsun, Mul(Num(-3 * Unit), Msun), e, d, v) :
        m \in MassInputs, e \in EpsInputs, d \in DInputs, v \in VInputs}

Variations == {"same", "D", "deltaM", "epsilon"}

Vary(a, how) ==
    IF how = "D" THEN [a EXCEPT !.D = Mul(Two, @)]
    ELSE IF how = "deltaM" THEN [a EXCEPT !.deltaM = Mul(Two, @)]
    ELSE IF how = "epsilon" THEN [a EXCEPT !.epsilon = Mul(Two, @)]
    ELSE a

InitFn ==
    /\ Globals0
    /\ M_pbh = <<>>
    /\ acc = <<>>
    /\ strains = <<>>
    /\ report = None
    /\ pc = "harness"
    /\ base \in BaseSpace
    /\ calls = <<>>

\* A call of KMR_strain that also rebinds the global c it reads.
Call_RebindsGlobal(how) ==
    /\ pc = "harness"
    /\ Len(calls) < MaxCalls
    /\ calls' = Append(calls, [a |-> Vary(base, how), r |-> Apply(Vary(base, how))])
    /\ c' = Mul(c, c)
    /\ UNCHANGED <<G, M_star, R_star, epsilon, deltaM, D, v_ej, M_pbh, acc,
                   strains, report, pc, base>>

\* One call of KMR_strain (lines 37-61): it reads its arguments and the globals
\* G and c, and assigns only locals.
Call(how) ==
    /\ pc = "harness"
    /\ Len(calls) < MaxCalls
    /\ calls' = Append(calls, [a |-> Vary(base, how), r |-> Apply(Vary(base, how))])
    /\ UNCHANGED <<globals, M_pbh, acc, strains, report, pc, base>>

NextFn == \E how \in Variations : Call(how)

SpecFn == InitFn /\ [][NextFn]_vars

---------------------------------------------------------------------------
\* Properties

Pos(x) == x.k = "num" /\ x.s = 1

NonNeg(x) == x.k = "zero" \/ Pos(x)

\* The declared domains of the model parameters and of the mass.
InDomain(a) ==
    /\ Pos(a.M_pbh) /\ Pos(a.M_star) /\ Pos(a.R_star)
    /\ Pos(a.deltaM) /\ Pos(a.D)
    /\ Pos(a.epsilon) /\ a.epsilon.l <= 0
    /\ Pos(a.v_ej) /\ Less(a.v_ej, c)

\* The precondition violations of section 7: a non-positive mass, epsilon
\* outside (0, 1], v_ej >= c.
Violates(a) ==
    \/ ~Pos(a.M_pbh)
    \/ ~(Pos(a.epsilon) /\ a.epsilon.l <= 0)
    \/ ~Less(a.v_ej, c)

Idx == 1..Len(calls)

Done == pc \in {"report", "plot", "done"}

\* C1: at every step of the sweep the results collected so far are the
\* strains of the first k grid values in grid order, the k-th call of
\* KMR_strain is the call on the k-th grid value with the fixed parameters,
\* and once the sweep has finished strains has the length of the grid and
\* strains[i] is KMR_strain of M_pbh[i] for every i.
C1_SweepInGridOrder ==
    /\ Len(acc) <= Len(M_pbh)
    /\ Len(calls) = Len(acc)
    /\ \A i \in 1..Len(acc) :
          /\ calls[i].a = Args(M_pbh[i], M_star, R_star, deltaM, epsilon, D, v_ej)
          /\ acc[i] = KMR_strain(M_pbh[i], M_star, R_star, deltaM, epsilon, D, v_ej)
    /\ Done =>
          /\ Len(strains) = Len(M_pbh)
          /\ Len(calls) = Len(M_pbh)
          /\ \A i \in 1..Len(M_pbh) :
                strains[i] = KMR_strain(M_pbh[i], M_star, R_star, deltaM, epsilon, D, v_ej)

C1_Witness == pc = "done" /\ Len(strains) = GridNum /\ Len(calls) = GridNum

\* Calls i and j differ in D alone, j's being twice i's.
DoubledD(i, j) == calls[j].a = [calls[i].a EXCEPT !.D = Mul(Two, @)]
DoubledDeltaM(i, j) == calls[j].a = [calls[i].a EXCEPT !.deltaM = Mul(Two, @)]
DoubledEpsilon(i, j) == calls[j].a = [calls[i].a EXCEPT !.epsilon = Mul(Two, @)]

\* C2 as claimed: for arguments in their domains, the strain at D divided by
\* the strain at 2 D is 4.
C2_InverseSquare ==
    \A i, j \in Idx :
        InDomain(calls[i].a) /\ DoubledD(i, j)
            => Eq(Div(calls[i].r, calls[j].r), Mul(Two, Two))

\* C2 amended: for arguments in their domains, the strain at D divided by the
\* strain at 2 D is 2 (the strain scales as the inverse of the distance).
C2_InverseDistance ==
    \A i, j \in Idx :
        InDomain(calls[i].a) /\ DoubledD(i, j)
            => Eq(Div(calls[i].r, calls[j].r), Two)

C2_Witness ==
    \E i, j \in Idx :
        InDomain(calls[i].a) /\ DoubledD(i, j) /\ Pos(calls[i].r) /\ Pos(calls[j].r)

\* C3: for arguments in their domains, the strain with deltaM doubled is twice
\* the strain, and the strain with epsilon doubled is twice the strain.
C3_LinearInDeltaMAndEpsilon ==
    \A i, j \in Idx :
        InDomain(calls[i].a) /\ (DoubledDeltaM(i, j) \/ DoubledEpsilon(i, j))
            => Eq(calls[j].r, Mul(Two, calls[i].r))

C3_Witness ==
    \E i, j, k \in Idx :
        /\ InDomain(calls[i].a) /\ Pos(calls[i].r)
        /\ DoubledDeltaM(i, j) /\ DoubledEpsilon(i, k)

\* C4: for a positive mass and parameters in their domains KMR_strain returns
\* a real number >= 0.
C4_NonNegative ==
    \A i \in Idx : InDomain(calls[i].a) => NonNeg(calls[i].r)

C4_Witness ==
    \E i \in Idx :
        /\ InDomain(calls[i].a) /\ NonNeg(calls[i].r)
        /\ calls[i].a.M_pbh = Float64(Num(GridHi * Unit))

\* C5: once built, the grid has 200 elements, the first 10^20 and the last
\* 10^25, each element is positive and less than the next, and every call of
\* the sweep is on a positive mass.
C5_Grid ==
    pc # "grid" =>
        /\ Len(M_pbh) = 200
        /\ Eq(M_pbh[1], Num(20 * Unit))
        /\ Eq(M_pbh[Len(M_pbh)], Num(25 * Unit))
        /\ \A i \in 1..Len(M_pbh) : Pos(M_pbh[i])
        /\ \A i \in 1..(Len(M_pbh) - 1) : Less(M_pbh[i], M_pbh[i + 1])
        /\ \A i \in Idx : Pos(calls[i].a.M_pbh)

C5_Witness == pc = "done" /\ Len(M_pbh) = 200 /\ Len(calls) = 200

\* C6: two calls of KMR_strain with the same arguments return the same value,
\* whatever calls were made before or between them.
C6_SameArgumentsSameResult ==
    \A i, j \in Idx : calls[i].a = calls[j].a => calls[i].r = calls[j].r

C6_Witness ==
    /\ Len(calls) = 3
    /\ calls[1].a = calls[3].a
    /\ calls[2].a # calls[1].a
    /\ Pos(calls[1].r)

\* C7: the pair reported is made only once every grid point has been
\* evaluated; its first component is an element of strains and <= every
\* element, its second is an element of strains and >= every element.
C7_ReportIsMinMax ==
    IF report = None THEN pc \notin {"plot", "done"}
    ELSE /\ Len(strains) = Len(M_pbh)
         /\ Len(calls) = Len(M_pbh)
         /\ \E i \in 1..Len(strains) : strains[i] = report[1]
         /\ \E i \in 1..Len(strains) : strains[i] = report[2]
         /\ \A i \in 1..Len(strains) :
               LessEq(report[1], strains[i]) /\ LessEq(strains[i], report[2])

C7_Witness ==
    /\ pc = "done"
    /\ report # None
    /\ Len(strains) = GridNum
    /\ Less(report[1], report[2])

\* C8 as claimed: a call whose arguments violate a precondition raises an
\* error instead of returning a value.
C8_ViolationRaises ==
    \A i \in Idx : Violates(calls[i].a) => calls[i].r.k = "raise"

\* C9: the strain sequence has no interior dip: no i < j < k with strains[j]
\* below both strains[i] and strains[k].
C9_NoInteriorDip ==
    Done =>
        \A j \in 1..Len(strains) :
            \A i \in 1..(j - 1) :
                Less(strains[j], strains[i]) =>
                    \A k \in (j + 1)..Len(strains) : ~Less(strains[j], strains[k])

C9_Witness ==
    /\ pc = "done"
    /\ Len(strains) = GridNum
    /\ \E i \in 1..(Len(strains) - 1) : Less(strains[i], strains[i + 1])

\* C10 as claimed: every strain of the sweep lies between 1e-24 and 1e-21.
C10_InRange ==
    Done =>
        \A i \in 1..Len(strains) :
            /\ LessEq(Num(-24 * Unit), strains[i])
            /\ LessEq(strains[i], Num(-21 * Unit))

===========================================================================
